---- MODULE Spec2Model ----
(***************************************************************************)
(* NetworkIRR (networkIRR.py): an adjacency matrix together with lazily    *)
(* computed, memoised data of its automorphism group: group, orbits,       *)
(* permutation matrices, conjugacy classes, character table, IRR           *)
(* degeneracies, projection operators and the transformation operator.     *)
(*                                                                         *)
(* Representation.                                                         *)
(*  - A Python field that may be None is <<>> when None and <<v>> when it  *)
(*    holds v.                                                             *)
(*  - Matrices are sequences of rows.  Indices into Python lists are kept  *)
(*    0-based in the interface (the argument j of get_projection_operator, *)
(*    the IRR index of a row of the transformation operator).              *)
(*  - Sage (the group oracle) is modelled by computation on small graphs:  *)
(*    the automorphisms are found by filtering the permutations, classes   *)
(*    by conjugation; representatives and character tables are tabulated. *)
(*    All character values of these groups are integers.                   *)
(*  - A projection operator dim/|G| * sum chi(g) D(g) is kept exactly as   *)
(*    [num, den]: the integer matrix dim * sum chi(g) D(g) over den = |G|. *)
(*  - la.svd is modelled by the number of singular values equal to 1,      *)
(*    n - rank(P^T P - I), computed exactly; the rows of VH it selects are *)
(*    abstracted to the index of the IRR they belong to.                   *)
(***************************************************************************)
EXTENDS Integers, Sequences, FiniteSets

\* ------------------------------------------------------------------ bounds
\* Networks of the catalogue with at most MaxNodes nodes are given as input.
MaxNodes == 3
\* get_projection_operator is called with j in -MaxIndex .. MaxIndex.
MaxIndex == 2
\* The caller overwrites at most MaxMutations of the matrices it was handed.
MaxMutations == 1
\* An injected oracle failure hits one of the first MaxFault oracle steps of a call.
MaxFault == 3

\* ------------------------------------------------------------------ None
None == <<>>
Some(v) == <<v>>
IsNone(x) == x = <<>>
Val(x) == x[1]

\* ------------------------------------------------------------------ matrices
Dim(M) == Len(M)

RECURSIVE SumTo(_, _)
SumTo(f, n) == IF n = 0 THEN 0 ELSE f[n] + SumTo(f, n - 1)

\* np.trace
Trace(M) == SumTo([i \in 1..Len(M) |-> M[i][i]], Len(M))

Zeros(n) == [i \in 1..n |-> [k \in 1..n |-> 0]]

MatAdd(A, B) == [i \in 1..Len(A) |-> [k \in 1..Len(A[i]) |-> A[i][k] + B[i][k]]]

MatScale(A, c) == [i \in 1..Len(A) |-> [k \in 1..Len(A[i]) |-> A[i][k] * c]]

\* A^T A - c * I, for a square integer matrix A
GramMinus(A, c) ==
    [i \in 1..Len(A) |-> [k \in 1..Len(A) |->
        SumTo([r \in 1..Len(A) |-> A[r][i] * A[r][k]], Len(A))
        - (IF i = k THEN c ELSE 0)]]

\* the strictly increasing sequence of the elements of a set of integers
RECURSIVE Sorted(_)
Sorted(S) ==
    IF S = {} THEN <<>>
    ELSE LET m == CHOOSE x \in S : \A y \in S : x <= y
         IN  <<m>> \o Sorted(S \ {m})

\* determinant of the minor of M on rows R and columns C (sorted sequences)
RECURSIVE Det(_, _, _)
Det(M, R, C) ==
    IF Len(R) = 0 THEN 1
    ELSE SumTo([k \in 1..Len(C) |->
                  (IF k % 2 = 1 THEN 1 ELSE -1) * M[R[1]][C[k]]
                  * Det(M, Tail(R), SubSeq(C, 1, k - 1) \o SubSeq(C, k + 1, Len(C)))],
               Len(C))

\* rank of a square integer matrix: the size of its largest nonzero minor
Rank(M) ==
    LET n == Len(M)
        HasMinor(k) == \E R \in SUBSET (1..n) : \E C \in SUBSET (1..n) :
                          /\ Cardinality(R) = k
                          /\ Cardinality(C) = k
                          /\ Det(M, Sorted(R), Sorted(C)) # 0
    IN  CHOOSE k \in 0..n : HasMinor(k) /\ \A m \in (k + 1)..n : ~HasMinor(m)

\* ------------------------------------------------------------------ inputs
\* adjacency matrices given to the constructor and to _set_adjacency_matrix
AdjN1 == << <<0>> >>
AdjK2 == << <<0, 1>>, <<1, 0>> >>
AdjP3 == << <<0, 1, 0>>, <<1, 0, 1>>, <<0, 1, 0>> >>
AdjK3 == << <<0, 1, 1>>, <<1, 0, 1>>, <<1, 1, 0>> >>
AdjP4 == << <<0, 1, 0, 0>>, <<1, 0, 1, 0>>, <<0, 1, 0, 1>>, <<0, 0, 1, 0>> >>
\* a matrix that is not square
AdjNonSquare == << <<0, 1>> >>

Graphs == {m \in {AdjN1, AdjK2, AdjP3, AdjK3, AdjP4} : Len(m) <= MaxNodes}

\* the arguments of _set_adjacency_matrix: a graph, a malformed matrix, or None
Inputs == {Some(m) : m \in Graphs \cup {AdjNonSquare}} \cup {None}

\* ------------------------------------------------------------------ Sage, the group oracle
\* A permutation of 1..n is the sequence of its images.
Perms(n) == {p \in [1..n -> 1..n] : \A i, k \in 1..n : p[i] = p[k] => i = k}

Identity(n) == [i \in 1..n |-> i]
Compose(h, g) == [i \in 1..Len(g) |-> h[g[i]]]
Inverse(g) == [i \in 1..Len(g) |-> CHOOSE k \in 1..Len(g) : g[k] = i]

\* element.matrix(): the permutation matrix of a group element
PermMatrix(p) == [i \in 1..Len(p) |-> [k \in 1..Len(p) |-> IF p[i] = k THEN 1 ELSE 0]]

LexLess(p, q) == \E i \in 1..Len(p) : p[i] < q[i] /\ \A k \in 1..(i - 1) : p[k] = q[k]

RECURSIVE LexList(_)
LexList(S) ==
    IF S = {} THEN <<>>
    ELSE LET m == CHOOSE p \in S : \A q \in S \ {p} : LexLess(p, q)
         IN  <<m>> \o LexList(S \ {m})

\* sg.Graph(sg.Matrix(adjmat)) accepts a symmetric square matrix
IsGraphMatrix(a) ==
    /\ ~IsNone(a)
    /\ \A i \in 1..Len(Val(a)) : Len(Val(a)[i]) = Len(Val(a))
    /\ \A i, k \in 1..Len(Val(a)) : Val(a)[i][k] = Val(a)[k][i]

Automorphisms(m) ==
    {p \in Perms(Len(m)) : \A i, k \in 1..Len(m) : m[p[i]][p[k]] = m[i][k]}

\* the orbits of a group on the nodes 0..n-1, as a list of lists
OrbitsOf(G, n) ==
    LET orbit(i) == {g[i] - 1 : g \in G}
        least == {i \in 1..n : \A k \in orbit(i) : i - 1 <= k}
        ls == Sorted(least)
    IN  [x \in 1..Len(ls) |-> Sorted(orbit(ls[x]))]

\* Graph.automorphism_group(orbits=True): a group is the list of its elements
AutomorphismGroupTable ==
    [m \in Graphs |-> [group  |-> LexList(Automorphisms(m)),
                       orbits |-> OrbitsOf(Automorphisms(m), Len(m))]]

SageAutomorphismGroup(m) == AutomorphismGroupTable[m]

\* group.order(), group.list()
GroupOrder(G) == Len(G)
GroupList(G) == G

\* group.conjugacy_classes(): a class is given by its representative; the
\* classes come in the order of the columns of the character table, the class
\* of the identity first
SageConjugacyClasses(G) ==
    LET n == Len(G[1])
    IN  CASE Len(G) = 1 -> << Identity(n) >>
          [] Len(G) = 2 -> << Identity(n), G[2] >>
          [] Len(G) = 6 -> << <<1, 2, 3>>, <<2, 1, 3>>, <<2, 3, 1>> >>

\* group.character_table(): rows are IRRs, columns are classes
SageCharacterTable(G) ==
    CASE Len(G) = 1 -> << <<1>> >>
      [] Len(G) = 2 -> << <<1, 1>>, <<1, -1>> >>
      [] Len(G) = 6 -> << <<1, -1, 1>>, <<2, 0, -1>>, <<1, 1, 1>> >>

\* sg.ConjugacyClass(group, representative).list()
ConjugacyClassList(G, rep) ==
    LET cls == {Compose(Compose(G[h], rep), Inverse(G[h])) : h \in 1..Len(G)}
    IN  <<rep>> \o LexList(cls \ {rep})

\* ------------------------------------------------------------------ the object
VARIABLES adjmat, nnodes, group, orbits, permutation_matrices, conjugacy_classes,
          conjugacy_classes_matrices, character_table, IRR_degeneracies,
          projection_operators, transformation_operator,
          oracle_calls, held, mutations, ret

\* instance data, lines 17-38
cache == <<group, orbits, permutation_matrices, conjugacy_classes,
           conjugacy_classes_matrices, character_table, IRR_degeneracies,
           projection_operators, transformation_operator>>

\* oracle_calls: how often each oracle function has returned a result since the
\*               adjacency matrix was set
\* held:         the internal arrays a caller was handed by reference
\* mutations:    how many of them the caller has overwritten
\* ret:          the last call: method, argument, outcome and the value returned
vars == <<adjmat, nnodes, cache, oracle_calls, held, mutations, ret>>

\* The object as a record; fault = k > 0 makes the k-th oracle step from here
\* raise, fault = 0 lets every step succeed.
Self ==
    [adjmat |-> adjmat, nnodes |-> nnodes, group |-> group, orbits |-> orbits,
     permutation_matrices |-> permutation_matrices,
     conjugacy_classes |-> conjugacy_classes,
     conjugacy_classes_matrices |-> conjugacy_classes_matrices,
     character_table |-> character_table,
     IRR_degeneracies |-> IRR_degeneracies,
     projection_operators |-> projection_operators,
     transformation_operator |-> transformation_operator,
     oracle_calls |-> oracle_calls, held |-> held, fault |-> 0]

NoCalls == [automorphism_group |-> 0, conjugacy_classes |-> 0, character_table |-> 0]

\* how much of the cache is set: "none", "some" or "all" of its fields
Cached ==
    IF \A i \in 1..Len(cache) : IsNone(cache[i]) THEN "none"
    ELSE IF \A i \in 1..Len(cache) : ~IsNone(cache[i]) THEN "all"
    ELSE "some"

\* the record of a call: the method, its argument (j of get_projection_operator,
\* input of _set_adjacency_matrix), how much of the cache was set when it
\* began, "ok" or the exception it raised, and the value it returned
Returned(op, j, input, r) ==
    [op |-> op, j |-> j, input |-> input, had |-> Cached, err |-> r.err, val |-> r.val]

\* the outcome of a call: the object afterwards, "ok" or the exception, the value
Ok(s, v) == [self |-> s, err |-> "ok", val |-> v]
Raise(s, e) == [self |-> s, err |-> e, val |-> None]

\* F of the value v, which is evaluated once
With(v, F(_)) == CHOOSE y \in {F(x) : x \in {v}} : TRUE

\* the outcome r of a call, followed by F unless the call raised
Then(r, F(_)) == With(r, LAMBDA x : IF x.err # "ok" THEN x ELSE F(x))

\* one step of the oracle (a Sage call with the conversions of its result)
Fails(s) == s.fault = 1
Tick(s) == [s EXCEPT !.fault = IF @ > 0 THEN @ - 1 ELSE 0]

\* Python's round(): to the nearest integer, a half to the even one; of a / b, b > 0
Round(a, b) ==
    IF 2 * (a % b) < b THEN a \div b
    ELSE IF 2 * (a % b) > b THEN (a \div b) + 1
    ELSE IF (a \div b) % 2 = 0 THEN a \div b ELSE (a \div b) + 1

\* bool(array == None): the comparison is elementwise, and the truth value of
\* its result is False for at most one element and an error for more
ArrayEqNone(size) == IF size > 1 THEN "ValueError" ELSE "False"

\* reset_data without line 71: the projection operators survive the reset
reset_data_keeps_projection_operators(s) ==
    [s EXCEPT !.adjmat = None, !.nnodes = 0, !.group = None, !.orbits = None,
              !.permutation_matrices = None, !.conjugacy_classes = None,
              !.conjugacy_classes_matrices = None, !.character_table = None,
              !.IRR_degeneracies = None,
              !.transformation_operator = None,
              !.held = {}]

\* lines 54-72
reset_data(s) ==
    [s EXCEPT !.adjmat = None, !.nnodes = 0, !.group = None, !.orbits = None,
              !.permutation_matrices = None, !.conjugacy_classes = None,
              !.conjugacy_classes_matrices = None, !.character_table = None,
              !.IRR_degeneracies = None, !.projection_operators = None,
              !.transformation_operator = None,
              !.held = {}]

\* lines 74-85; a is None or Some(matrix)
set_adjacency_matrix(s, a) ==
    With([reset_data(s) EXCEPT !.oracle_calls = NoCalls], LAMBDA r :
        IF IsNone(a) THEN Raise(r, "AttributeError")
        ELSE Ok([r EXCEPT !.adjmat = a, !.nnodes = Len(Val(a))], None))

\* lines 88-93
get_adjacency_matrix(s) ==
    IF IsNone(s.adjmat) THEN Raise(s, "AttributeError") ELSE Ok(s, Val(s.adjmat))

\* lines 102-103 and 137-139:
\* self._group, self._orbits = Graph(Matrix(a)).automorphism_group(orbits=True)
discover(s, a) ==
    IF Fails(s) \/ ~IsGraphMatrix(a) THEN Raise(Tick(s), "SageError")
    ELSE Ok([Tick(s) EXCEPT !.group = Some(SageAutomorphismGroup(Val(a)).group),
                            !.orbits = Some(SageAutomorphismGroup(Val(a)).orbits),
                            !.oracle_calls.automorphism_group = @ + 1], None)

\* get_automorphism_group without the test of line 101: discovery on every call
get_automorphism_group_uncached(s) ==
    Then(discover(s, s.adjmat), LAMBDA r : Ok(r.self, Val(r.self.group)))

\* lines 95-105
get_automorphism_group(s) ==
    Then(IF IsNone(s.group) THEN discover(s, s.adjmat) ELSE Ok(s, None), LAMBDA r :
         Ok(r.self, Val(r.self.group)))

\* lines 123-125: the loop, from the i-th element on
RECURSIVE append_permutation_matrices(_, _, _)
append_permutation_matrices(s, elements, i) ==
    IF i > Len(elements) THEN Ok(s, None)
    ELSE IF Fails(s) THEN Raise(Tick(s), "SageError")
    ELSE With([Tick(s) EXCEPT !.permutation_matrices =
                                  Some(Append(Val(@), PermMatrix(elements[i])))],
              LAMBDA s1 : append_permutation_matrices(s1, elements, i + 1))

\* lines 107-127
get_automorphism_group_matrices(s) ==
    Then(IF IsNone(s.group) THEN get_automorphism_group(s) ELSE Ok(s, None), LAMBDA g :
    Then(IF IsNone(g.self.permutation_matrices)
         THEN With([g.self EXCEPT !.permutation_matrices = Some(<<>>)], LAMBDA s1 :
                   append_permutation_matrices(s1, GroupList(Val(s1.group)), 1))
         ELSE Ok(g.self, None), LAMBDA r :
         Ok(r.self, Val(r.self.permutation_matrices))))

\* get_orbits keeping only the orbits of the pair that line 137 stores
get_orbits_without_group(s) ==
    Then(get_adjacency_matrix(s), LAMBDA p :
    Then(IF IsNone(s.orbits)
         THEN Then(get_adjacency_matrix(s), LAMBDA a : discover(a.self, Some(a.val)))
         ELSE Ok(s, None), LAMBDA r :
         Ok([r.self EXCEPT !.group = s.group], Val(r.self.orbits))))

\* lines 130-141
get_orbits(s) ==
    Then(get_adjacency_matrix(s), LAMBDA p :
    Then(IF IsNone(s.orbits)
         THEN Then(get_adjacency_matrix(s), LAMBDA a : discover(a.self, Some(a.val)))
         ELSE Ok(s, None), LAMBDA r :
         Ok(r.self, Val(r.self.orbits))))

\* lines 143-151
get_character_table(s) ==
    IF IsNone(s.character_table)
    THEN Then(get_automorphism_group(s), LAMBDA g :
              IF Fails(g.self) THEN Raise(Tick(g.self), "SageError")
              ELSE With(SageCharacterTable(g.val), LAMBDA t :
                        Ok([Tick(g.self) EXCEPT !.character_table = Some(t),
                                                !.oracle_calls.character_table = @ + 1], t)))
    ELSE Ok(s, Val(s.character_table))

\* get_conjugacy_classes asking for the character table first
get_conjugacy_classes_after_table(s) ==
    IF IsNone(s.conjugacy_classes)
    THEN Then(get_character_table(s), LAMBDA g :
              IF Fails(g.self) THEN Raise(Tick(g.self), "SageError")
              ELSE With(SageConjugacyClasses(Val(g.self.group)), LAMBDA c :
                        Ok([Tick(g.self) EXCEPT !.conjugacy_classes = Some(c),
                                                !.oracle_calls.conjugacy_classes = @ + 1], c)))
    ELSE Ok(s, Val(s.conjugacy_classes))

\* lines 153-164
get_conjugacy_classes(s) ==
    IF IsNone(s.conjugacy_classes)
    THEN Then(IF IsNone(s.group) THEN get_automorphism_group(s) ELSE Ok(s, None), LAMBDA g :
              IF Fails(g.self) THEN Raise(Tick(g.self), "SageError")
              ELSE With(SageConjugacyClasses(Val(g.self.group)), LAMBDA c :
                        Ok([Tick(g.self) EXCEPT !.conjugacy_classes = Some(c),
                                                !.oracle_calls.conjugacy_classes = @ + 1], c)))
    ELSE Ok(s, Val(s.conjugacy_classes))

\* lines 184-188: the matrices of the elements of the class of a representative
class_matrices(G, rep) ==
    With(ConjugacyClassList(G, rep), LAMBDA clist :
         [k \in 1..Len(clist) |-> PermMatrix(clist[k])])

\* lines 180-190: the loop, from the i-th class on; a class is appended once
\* all its elements are converted
RECURSIVE append_conjugacy_classes_matrices(_, _)
append_conjugacy_classes_matrices(s, i) ==
    IF i > Len(Val(s.conjugacy_classes)) THEN Ok(s, None)
    ELSE IF Fails(s) THEN Raise(Tick(s), "SageError")
    ELSE With([Tick(s) EXCEPT !.conjugacy_classes_matrices =
                  Some(Append(Val(@), class_matrices(Val(s.group), Val(s.conjugacy_classes)[i])))],
              LAMBDA s1 : append_conjugacy_classes_matrices(s1, i + 1))

\* lines 168-192
get_conjugacy_classes_matrices(s) ==
    Then(IF IsNone(s.conjugacy_classes) THEN get_conjugacy_classes(s) ELSE Ok(s, None),
         LAMBDA c :
    Then(IF IsNone(c.self.conjugacy_classes_matrices)
         THEN With([c.self EXCEPT !.conjugacy_classes_matrices = Some(<<>>)], LAMBDA s1 :
                   append_conjugacy_classes_matrices(s1, 1))
         ELSE Ok(c.self, None), LAMBDA r :
         Ok(r.self, Val(r.self.conjugacy_classes_matrices))))

\* lines 194-201
get_numIRRs(s) ==
    Then(get_character_table(s), LAMBDA t : Ok(t.self, Len(t.val[1])))

\* degeneracy reading characters[j][i] for characters[i][j]
degeneracy_transposed(characters, group_order, matricies, i) ==
    Round(SumTo([j \in 1..Len(characters[1]) |->
                    Len(matricies[j]) * characters[j][i] * Trace(matricies[j][1])],
                Len(characters[1])),
          group_order)

\* line 219: total over the classes j of len(matricies[j])/group_order *
\* conj(characters[i][j]) * trace(matricies[j][0]); line 221: round(real(total))
degeneracy(characters, group_order, matricies, i) ==
    Round(SumTo([j \in 1..Len(characters[1]) |->
                    Len(matricies[j]) * characters[i][j] * Trace(matricies[j][1])],
                Len(characters[1])),
          group_order)

\* append_degeneracies putting each new degeneracy in front of the list
RECURSIVE prepend_degeneracies(_, _, _, _, _)
prepend_degeneracies(s, characters, group_order, matricies, i) ==
    IF i > Len(characters[1]) THEN Ok(s, None)
    ELSE IF Fails(s) THEN Raise(Tick(s), "SageError")
    ELSE IF Len(characters[1]) > Len(matricies) THEN Raise(Tick(s), "IndexError")
    ELSE With([Tick(s) EXCEPT !.IRR_degeneracies =
                  Some(<<degeneracy(characters, group_order, matricies, i)>> \o Val(@))],
              LAMBDA s1 : prepend_degeneracies(s1, characters, group_order, matricies, i + 1))

\* lines 216-221: the loop over the IRRs, from the i-th on; matricies[j] raises
\* IndexError when the list of classes is shorter than the character table
RECURSIVE append_degeneracies(_, _, _, _, _)
append_degeneracies(s, characters, group_order, matricies, i) ==
    IF i > Len(characters[1]) THEN Ok(s, None)
    ELSE IF Fails(s) THEN Raise(Tick(s), "SageError")
    ELSE IF Len(characters[1]) > Len(matricies) THEN Raise(Tick(s), "IndexError")
    ELSE With([Tick(s) EXCEPT !.IRR_degeneracies =
                  Some(Append(Val(@), degeneracy(characters, group_order, matricies, i)))],
              LAMBDA s1 : append_degeneracies(s1, characters, group_order, matricies, i + 1))

\* lines 203-223
get_IRR_degeneracies(s) ==
    IF IsNone(s.IRR_degeneracies)
    THEN Then(get_character_table(s), LAMBDA t :
         Then(get_automorphism_group(t.self), LAMBDA g :
         With([g.self EXCEPT !.IRR_degeneracies = Some(<<>>)], LAMBDA s1 :
         Then(get_conjugacy_classes_matrices(s1), LAMBDA m :
         Then(append_degeneracies(m.self, t.val, GroupOrder(g.val), m.val, 1), LAMBDA r :
              Ok(r.self, Val(r.self.IRR_degeneracies)))))))
    ELSE Ok(s, Val(s.IRR_degeneracies))

\* a Python index j into a list of length len, as a position 1..len; 0 when
\* it is out of range (negative indices count from the end)
PyIndex(j, len) ==
    IF 0 <= j /\ j < len THEN j + 1
    ELSE IF j < 0 /\ -len <= j THEN len + j + 1
    ELSE 0

\* class_sum taking the first matrix of the class only
class_sum_of_representative(mats, c, n, k) ==
    IF k > Len(mats) THEN Zeros(n) ELSE MatScale(mats[k], c)

\* lines 247-248: the sum of mat * c over the matrices of one class, from the k-th on
RECURSIVE class_sum(_, _, _, _)
class_sum(mats, c, n, k) ==
    IF k > Len(mats) THEN Zeros(n)
    ELSE MatAdd(MatScale(mats[k], c), class_sum(mats, c, n, k + 1))

\* lines 244-248: the sum over every element of every class, from the i-th class on
RECURSIVE group_sum(_, _, _, _)
group_sum(characters, matricies, n, i) ==
    IF i > Len(characters) THEN Zeros(n)
    ELSE MatAdd(class_sum(matricies[i], characters[i], n, 1),
                group_sum(characters, matricies, n, i + 1))

\* projection without the factor IRR_dimension of line 250
projection_without_dimension(IRR_dimension, group_order, characters, matricies, n) ==
    [num |-> group_sum(characters, matricies, n, 1), den |-> group_order]

\* lines 244-250: result * IRR_dimension / group_order, kept as num / den
projection(IRR_dimension, group_order, characters, matricies, n) ==
    [num |-> MatScale(group_sum(characters, matricies, n, 1), IRR_dimension),
     den |-> group_order]

\* lines 238-250: the projection operator of row j is built and stored at pos
build_projection_operator(s, j, pos) ==
    Then(get_character_table(s), LAMBDA t :
    Then(get_automorphism_group(t.self), LAMBDA g :
    Then(get_conjugacy_classes_matrices(g.self), LAMBDA m :
    With(t.val[PyIndex(j, Len(t.val))], LAMBDA characters :
         IF Len(characters) > Len(m.val) THEN Raise(m.self, "IndexError")
         ELSE With(projection(characters[1], GroupOrder(g.val), characters, m.val,
                              m.self.nnodes), LAMBDA P :
                   Ok([m.self EXCEPT !.projection_operators =
                           Some([Val(@) EXCEPT ![pos] = Some(P)])], P))))))

\* lines 238 and 252, for an index in range
lookup_projection_operator(s, j, pos) ==
    IF IsNone(Val(s.projection_operators)[pos])
    THEN build_projection_operator(s, j, pos)
    ELSE IF ArrayEqNone(s.nnodes * s.nnodes) = "ValueError" THEN Raise(s, "ValueError")
    ELSE Ok(s, Val(Val(s.projection_operators)[pos]))

\* get_projection_operator without the test of line 235: the list of
\* projection operators is allocated anew on every call
get_projection_operator_reallocating(s, j) ==
    Then(get_IRR_degeneracies(s), LAMBDA d :
    With([d.self EXCEPT !.projection_operators = Some([k \in 1..Len(d.val) |-> None])],
         LAMBDA s1 :
         IF PyIndex(j, Len(Val(s1.projection_operators))) = 0 THEN Raise(s1, "IndexError")
         ELSE lookup_projection_operator(s1, j, PyIndex(j, Len(Val(s1.projection_operators))))))

\* lines 225-252
get_projection_operator(s, j) ==
    Then(get_IRR_degeneracies(s), LAMBDA d :
    With(IF IsNone(d.self.projection_operators)
         THEN [d.self EXCEPT !.projection_operators = Some([k \in 1..Len(d.val) |-> None])]
         ELSE d.self, LAMBDA s1 :
         IF PyIndex(j, Len(Val(s1.projection_operators))) = 0 THEN Raise(s1, "IndexError")
         ELSE lookup_projection_operator(s1, j, PyIndex(j, Len(Val(s1.projection_operators))))))

\* la.svd and lines 280-283: the number of singular values w of P with
\* |w - 1| < epsilon, the multiplicity of the eigenvalue 1 of P^T P
UnitSingularValues(P) == Len(P.num) - Rank(GramMinus(P.num, P.den * P.den))

\* check_rank storing the rows collected so far before it raises
check_rank_stores_partial(s, result, j, R1, R2) ==
    IF R1 # R2
    THEN Raise([s EXCEPT !.transformation_operator = Some(result \o [k \in 1..R2 |-> j])],
               "Exception")
    ELSE Ok(s, result \o [k \in 1..R2 |-> j])

\* check_rank putting the new rows in front of the rows collected so far
check_rank_prepends(s, result, j, R1, R2) ==
    IF R1 # R2 THEN Raise(s, "Exception")
    ELSE Ok(s, [k \in 1..R2 |-> j] \o result)

\* lines 277-289: R2 rows of IRR j are appended to result; R1 # R2 raises
check_rank(s, result, j, R1, R2) ==
    IF R1 # R2 THEN Raise(s, "Exception")
    ELSE Ok(s, result \o [k \in 1..R2 |-> j])

\* the loop over the IRRs without the test of line 267: the projection operator
\* of every IRR is built and decomposed
RECURSIVE collect_rows_of_every_IRR(_, _, _, _)
collect_rows_of_every_IRR(s, degens, result, j) ==
    IF j >= Len(degens) THEN Ok(s, result)
    ELSE Then(get_character_table(s), LAMBDA t :
         Then(get_projection_operator(t.self, j), LAMBDA p :
         Then(check_rank(p.self, result, j, t.val[j + 1][1] * degens[j + 1],
                         UnitSingularValues(p.val)), LAMBDA c :
              collect_rows_of_every_IRR(c.self, degens, c.val, j + 1))))

\* lines 265-289: the loop over the IRRs, from index j on; result holds, for
\* every row collected so far, the index of the IRR it belongs to
RECURSIVE collect_rows(_, _, _, _)
collect_rows(s, degens, result, j) ==
    IF j >= Len(degens) THEN Ok(s, result)
    ELSE Then(get_character_table(s), LAMBDA t :
              IF degens[j + 1] = 0 THEN collect_rows(t.self, degens, result, j + 1)
              ELSE Then(get_projection_operator(t.self, j), LAMBDA p :
                   Then(check_rank(p.self, result, j, t.val[j + 1][1] * degens[j + 1],
                                   UnitSingularValues(p.val)), LAMBDA c :
                        collect_rows(c.self, degens, c.val, j + 1))))

\* lines 254-296
get_transformation_operator(s) ==
    IF IsNone(s.transformation_operator)
    THEN Then(get_IRR_degeneracies(s), LAMBDA d :
         Then(collect_rows(d.self, d.val, <<>>, 0), LAMBDA r :
              Ok([r.self EXCEPT !.transformation_operator = Some(r.val)], r.val)))
    ELSE IF ArrayEqNone(Len(Val(s.transformation_operator)) * s.nnodes) = "ValueError"
         THEN Raise(s, "ValueError")
         ELSE Ok(s, Val(s.transformation_operator))

\* ------------------------------------------------------------------ calls
Getters == {"get_adjacency_matrix", "get_automorphism_group",
            "get_automorphism_group_matrices", "get_orbits", "get_character_table",
            "get_conjugacy_classes", "get_conjugacy_classes_matrices", "get_numIRRs",
            "get_IRR_degeneracies", "get_projection_operator",
            "get_transformation_operator"}

\* the arguments of get_projection_operator
Indices == (-MaxIndex)..MaxIndex

\* the call op(j) on the object s
Call(op, j, s) ==
    CASE op = "get_adjacency_matrix" -> get_adjacency_matrix(s)
      [] op = "get_automorphism_group" -> get_automorphism_group(s)
      [] op = "get_automorphism_group_matrices" -> get_automorphism_group_matrices(s)
      [] op = "get_orbits" -> get_orbits(s)
      [] op = "get_character_table" -> get_character_table(s)
      [] op = "get_conjugacy_classes" -> get_conjugacy_classes(s)
      [] op = "get_conjugacy_classes_matrices" -> get_conjugacy_classes_matrices(s)
      [] op = "get_numIRRs" -> get_numIRRs(s)
      [] op = "get_IRR_degeneracies" -> get_IRR_degeneracies(s)
      [] op = "get_projection_operator" -> get_projection_operator(s, j)
      [] op = "get_transformation_operator" -> get_transformation_operator(s)

\* The internal arrays that the value returned by op(j) shares with the object:
\* list(...) copies the list and not the arrays in it (lines 127, 192), and line
\* 252 returns the cached array itself; lines 93 and 296 return copies.
Handed(op, j, s) ==
    CASE op = "get_automorphism_group_matrices" ->
             {<<"permutation_matrices", k, 0>> : k \in 1..Len(Val(s.permutation_matrices))}
      [] op = "get_conjugacy_classes_matrices" ->
             UNION {{<<"conjugacy_classes_matrices", c, k>> :
                        k \in 1..Len(Val(s.conjugacy_classes_matrices)[c])} :
                    c \in 1..Len(Val(s.conjugacy_classes_matrices))}
      [] op = "get_projection_operator" ->
             {<<"projection_operators", PyIndex(j, Len(Val(s.projection_operators))), 0>>}
      [] OTHER -> {}

\* the caller fills the array it holds by handle h with zeros (array.fill(0))
Overwrite(s, h) ==
    CASE h[1] = "permutation_matrices" ->
             [s EXCEPT !.permutation_matrices =
                 Some([Val(@) EXCEPT ![h[2]] = Zeros(Len(@))])]
      [] h[1] = "conjugacy_classes_matrices" ->
             [s EXCEPT !.conjugacy_classes_matrices =
                 Some([Val(@) EXCEPT ![h[2]][h[3]] = Zeros(Len(@))])]
      [] h[1] = "projection_operators" ->
             [s EXCEPT !.projection_operators =
                 Some([Val(@) EXCEPT ![h[2]] = Some([Val(@) EXCEPT !.num = Zeros(Len(@))])])]

\* the object before the constructor has run
Blank ==
    [adjmat |-> None, nnodes |-> 0, group |-> None, orbits |-> None,
     permutation_matrices |-> None, conjugacy_classes |-> None,
     conjugacy_classes_matrices |-> None, character_table |-> None,
     IRR_degeneracies |-> None, projection_operators |-> None,
     transformation_operator |-> None,
     oracle_calls |-> NoCalls, held |-> {}, fault |-> 0]

\* lines 42-51: a freshly constructed object (adjmat=None raises, and no object results)
Constructed(a) == set_adjacency_matrix(reset_data(Blank), a).self

Install(s) ==
    /\ adjmat' = s.adjmat
    /\ nnodes' = s.nnodes
    /\ group' = s.group
    /\ orbits' = s.orbits
    /\ permutation_matrices' = s.permutation_matrices
    /\ conjugacy_classes' = s.conjugacy_classes
    /\ conjugacy_classes_matrices' = s.conjugacy_classes_matrices
    /\ character_table' = s.character_table
    /\ IRR_degeneracies' = s.IRR_degeneracies
    /\ projection_operators' = s.projection_operators
    /\ transformation_operator' = s.transformation_operator
    /\ oracle_calls' = s.oracle_calls

\* the caller's call op(j) has ended with the outcome r: the caller is handed
\* what it returns
Done(op, j, r) ==
    /\ Install(r.self)
    /\ held' = IF r.err = "ok" THEN r.self.held \cup Handed(op, j, r.self)
               ELSE r.self.held
    /\ ret' = Returned(op, j, None, r)
    /\ UNCHANGED mutations

Init ==
    \E a \in Inputs \ {None} : \E s \in {Constructed(a)} :
            /\ adjmat = s.adjmat
            /\ nnodes = s.nnodes
            /\ group = s.group
            /\ orbits = s.orbits
            /\ permutation_matrices = s.permutation_matrices
            /\ conjugacy_classes = s.conjugacy_classes
            /\ conjugacy_classes_matrices = s.conjugacy_classes_matrices
            /\ character_table = s.character_table
            /\ IRR_degeneracies = s.IRR_degeneracies
            /\ projection_operators = s.projection_operators
            /\ transformation_operator = s.transformation_operator
            /\ oracle_calls = s.oracle_calls
            /\ held = s.held
            /\ mutations = 0
            /\ ret = [op |-> "__init__", j |-> 0, input |-> a, had |-> "none", err |-> "ok", val |-> None]

SetAdjacencyMatrix ==
    \E a \in Inputs : \E r \in {set_adjacency_matrix(Self, a)} :
            /\ Install(r.self)
            /\ held' = r.self.held
            /\ ret' = Returned("_set_adjacency_matrix", 0, a, r)
            /\ UNCHANGED mutations

GetAdjacencyMatrix ==
    \E r \in {get_adjacency_matrix(Self)} : Done("get_adjacency_matrix", 0, r)

GetAutomorphismGroup ==
    \E r \in {get_automorphism_group(Self)} : Done("get_automorphism_group", 0, r)

GetAutomorphismGroupMatrices ==
    \E r \in {get_automorphism_group_matrices(Self)} :
        Done("get_automorphism_group_matrices", 0, r)

GetOrbits ==
    \E r \in {get_orbits(Self)} : Done("get_orbits", 0, r)

GetCharacterTable ==
    \E r \in {get_character_table(Self)} : Done("get_character_table", 0, r)

GetConjugacyClasses ==
    \E r \in {get_conjugacy_classes(Self)} : Done("get_conjugacy_classes", 0, r)

GetConjugacyClassesMatrices ==
    \E r \in {get_conjugacy_classes_matrices(Self)} :
        Done("get_conjugacy_classes_matrices", 0, r)

GetNumIRRs ==
    \E r \in {get_numIRRs(Self)} : Done("get_numIRRs", 0, r)

GetIRRDegeneracies ==
    \E r \in {get_IRR_degeneracies(Self)} : Done("get_IRR_degeneracies", 0, r)

GetProjectionOperator ==
    \E j \in Indices : \E r \in {get_projection_operator(Self, j)} :
        Done("get_projection_operator", j, r)

GetTransformationOperator ==
    \E r \in {get_transformation_operator(Self)} :
        Done("get_transformation_operator", 0, r)

Next ==
    \/ SetAdjacencyMatrix
    \/ GetAdjacencyMatrix
    \/ GetAutomorphismGroup
    \/ GetAutomorphismGroupMatrices
    \/ GetOrbits
    \/ GetCharacterTable
    \/ GetConjugacyClasses
    \/ GetConjugacyClassesMatrices
    \/ GetNumIRRs
    \/ GetIRRDegeneracies
    \/ GetProjectionOperator
    \/ GetTransformationOperator

\* the object used through its methods, with an oracle that answers
Spec == Init /\ [][Next]_vars

\* The caller overwrites, in place, an array it was handed.
CallerMutates ==
    /\ mutations < MaxMutations
    /\ \E h \in held : \E s \in {Overwrite(Self, h)} :
          /\ s # Self
          /\ Install(s)
    /\ mutations' = mutations + 1
    /\ ret' = [op |-> "write", j |-> 0, input |-> None, had |-> Cached,
               err |-> "ok", val |-> None]
    /\ UNCHANGED held

NextAlias == Next \/ CallerMutates

\* the object used by a caller that writes into the matrices it was handed
SpecAlias == Init /\ [][NextAlias]_vars

\* An oracle step of the getter op(j) raises: the f-th one of the call.
OracleFailure ==
    \E op \in Getters, j \in Indices, f \in 1..MaxFault :
        \E r \in {Call(op, j, [Self EXCEPT !.fault = f])} :
            /\ op # "get_projection_operator" => j = 0
            /\ r.err = "SageError"
            /\ r.self.fault = 0
            /\ Done(op, j, r)

NextFault == Next \/ OracleFailure

\* the object used with an oracle whose calls may raise
SpecFault == Init /\ [][NextFault]_vars

\* ------------------------------------------------------------------ properties
AllAbsent == \A i \in 1..Len(cache) : IsNone(cache[i])

\* the object after op(j) on a freshly constructed object with matrix a
After(op, j, a) == Call(op, j, Constructed(a)).self

\* Every cached field holds what a fresh object with the current matrix computes.
Coherent ==
    /\ ~IsNone(group) =>
          group = After("get_automorphism_group", 0, adjmat).group
    /\ ~IsNone(orbits) =>
          orbits = After("get_orbits", 0, adjmat).orbits
    /\ ~IsNone(permutation_matrices) =>
          permutation_matrices =
              After("get_automorphism_group_matrices", 0, adjmat).permutation_matrices
    /\ ~IsNone(conjugacy_classes) =>
          conjugacy_classes = After("get_conjugacy_classes", 0, adjmat).conjugacy_classes
    /\ ~IsNone(conjugacy_classes_matrices) =>
          conjugacy_classes_matrices =
              After("get_conjugacy_classes_matrices", 0, adjmat).conjugacy_classes_matrices
    /\ ~IsNone(character_table) =>
          character_table = After("get_character_table", 0, adjmat).character_table
    /\ ~IsNone(IRR_degeneracies) =>
          IRR_degeneracies = After("get_IRR_degeneracies", 0, adjmat).IRR_degeneracies
    /\ ~IsNone(projection_operators) =>
          \A k \in 1..Len(Val(projection_operators)) :
              ~IsNone(Val(projection_operators)[k]) =>
                  Val(projection_operators)[k] =
                      Val(After("get_projection_operator", k - 1, adjmat).projection_operators)[k]
    /\ ~IsNone(transformation_operator) =>
          transformation_operator =
              After("get_transformation_operator", 0, adjmat).transformation_operator

\* C1: right after _set_adjacency_matrix every cached derived field is absent,
\* and whatever is cached later was computed from the current matrix only.
C1_SetClearsCache ==
    /\ ret.op = "_set_adjacency_matrix" => AllAbsent
    /\ Coherent

\* C1 witness: _set_adjacency_matrix succeeded on an object whose nine cached
\* fields were all set.
C1_Witness ==
    /\ ret.op = "_set_adjacency_matrix"
    /\ ret.err = "ok"
    /\ ret.had = "all"
    /\ AllAbsent

\* C2: between two _set_adjacency_matrix calls each oracle function
\* (automorphism_group, conjugacy_classes, character_table) returns at most once.
C2_OracleAtMostOnce ==
    /\ oracle_calls.automorphism_group <= 1
    /\ oracle_calls.conjugacy_classes <= 1
    /\ oracle_calls.character_table <= 1

\* C2 witness: get_orbits has returned on an object whose group was already
\* cached, and all three oracle functions have been called.
C2_Witness ==
    /\ ret.op = "get_orbits"
    /\ ret.err = "ok"
    /\ ret.had # "none"
    /\ oracle_calls = [automorphism_group |-> 1, conjugacy_classes |-> 1, character_table |-> 1]

\* the number of IRRs, once the character table is known
NumIRRs == Len(Val(character_table)[1])

\* C3: a getter called again with the same argument, the matrix unchanged,
\* succeeds with the same value and without any oracle call; and
\* get_transformation_operator succeeds after get_projection_operator(j).
C3_RepeatedGetterReturnsCached ==
    [][/\ (/\ ret.op \in Getters
           /\ ret.err = "ok"
           /\ ret'.op = ret.op
           /\ ret'.j = ret.j)
          => (ret'.err = "ok" /\ ret'.val = ret.val /\ oracle_calls' = oracle_calls)
       /\ (/\ ret.op = "get_projection_operator"
           /\ ret.err = "ok"
           /\ ret'.op = "get_transformation_operator")
          => ret'.err = "ok"]_vars

\* C4: get_projection_operator(j) raises IndexError for every j outside
\* 0 .. numIRRs - 1.
C4_IndexOutOfRangeFails ==
    (/\ ret.op = "get_projection_operator"
     /\ ~IsNone(character_table)
     /\ ret.j \notin 0..(NumIRRs - 1))
    => ret.err = "IndexError"

\* a matrix that is absent or not square
Malformed(a) == IsNone(a) \/ \E i \in 1..Len(Val(a)) : Len(Val(a)[i]) # Len(Val(a))

\* C5: _set_adjacency_matrix with a malformed matrix raises and leaves the
\* adjacency matrix, the node count and every cached field as they were.
C5_MalformedInputRejected ==
    [][(ret'.op = "_set_adjacency_matrix" /\ Malformed(ret'.input))
       => (ret'.err # "ok" /\ adjmat' = adjmat /\ nnodes' = nnodes /\ cache' = cache)]_vars

\* the entries of the list old that are set are the same in the list new
KeptEntries(old, new) ==
    \/ IsNone(old)
    \/ /\ ~IsNone(new)
       /\ Len(Val(new)) = Len(Val(old))
       /\ \A k \in 1..Len(Val(old)) : ~IsNone(Val(old)[k]) => Val(new)[k] = Val(old)[k]

\* C6: when get_transformation_operator raises on a rank mismatch, the
\* transformation operator stays unset, and the matrix, the node count, every
\* other cached field that was set and every projection operator that was
\* built keep their values.
C6_RankMismatchAborts ==
    [][(/\ ret'.op = "get_transformation_operator"
        /\ ret'.err = "Exception")
       => (/\ IsNone(transformation_operator')
           /\ adjmat' = adjmat
           /\ nnodes' = nnodes
           /\ \A i \in 1..7 : ~IsNone(cache[i]) => cache'[i] = cache[i]
           /\ KeptEntries(projection_operators, projection_operators'))]_vars

\* C6 witness: get_transformation_operator has raised on a rank mismatch after
\* building a projection operator.
C6_Witness ==
    /\ ret.op = "get_transformation_operator"
    /\ ret.err = "Exception"
    /\ IsNone(transformation_operator)
    /\ ~IsNone(projection_operators)
    /\ \E k \in 1..Len(Val(projection_operators)) : ~IsNone(Val(projection_operators)[k])

\* C7: whatever the caller wrote into the matrices it was handed, a getter of
\* matrices returns what it returns on a fresh object with the same matrix.
C7_ReturnsUnaffectedByCallerWrites ==
    (/\ ret.err = "ok"
     /\ ret.op \in {"get_adjacency_matrix", "get_automorphism_group_matrices",
                    "get_conjugacy_classes_matrices", "get_projection_operator",
                    "get_transformation_operator"})
    => \E op \in {ret.op} : \E j \in {ret.j} :
           ret.val = Call(op, j, Constructed(adjmat)).val

\* C8: a cached list is absent or complete: one permutation matrix per group
\* element, one list of matrices per conjugacy class, one degeneracy per IRR.
C8_NoPartialCache ==
    /\ ~IsNone(permutation_matrices) =>
          Len(Val(permutation_matrices)) = GroupOrder(Val(group))
    /\ ~IsNone(conjugacy_classes_matrices) =>
          Len(Val(conjugacy_classes_matrices)) = Len(Val(conjugacy_classes))
    /\ ~IsNone(IRR_degeneracies) =>
          Len(Val(IRR_degeneracies)) = Len(Val(character_table))

\* sum over the IRRs i of dimension[i] * degeneracy[i]
DimensionSum(table, degens) ==
    SumTo([i \in 1..Len(degens) |-> table[i][1] * degens[i]], Len(degens))

Conserving(degens) ==
    /\ Len(degens) = Len(Val(character_table))
    /\ \A i \in 1..Len(degens) : degens[i] >= 0
    /\ DimensionSum(Val(character_table), degens) = nnodes

\* C9: the degeneracies, cached or returned by get_IRR_degeneracies, are
\* non-negative and satisfy sum of dimension[i] * degeneracy[i] = node count.
C9_DimensionConservation ==
    /\ ~IsNone(IRR_degeneracies) => Conserving(Val(IRR_degeneracies))
    /\ (ret.op = "get_IRR_degeneracies" /\ ret.err = "ok") => Conserving(ret.val)

\* C9 witness: get_IRR_degeneracies has returned [0, 1, 1] for the triangle,
\* whose IRRs have the dimensions 1, 2, 1.
C9_Witness ==
    /\ ret.op = "get_IRR_degeneracies"
    /\ ret.err = "ok"
    /\ adjmat = Some(AdjK3)
    /\ ret.val = <<0, 1, 1>>

\* the rows of the blocks of the IRRs from index j on, in row order of the
\* character table: dimension * degeneracy rows each
RECURSIVE Blocks(_, _, _)
Blocks(table, degens, j) ==
    IF j >= Len(degens) THEN <<>>
    ELSE [k \in 1..(table[j + 1][1] * degens[j + 1]) |-> j] \o Blocks(table, degens, j + 1)

\* C10: a transformation operator, cached or returned, consists of the blocks
\* of the IRRs in character-table order, block j of dimension_j * degeneracy_j
\* rows, and has node-count many rows.
C10_TransformationBlocks ==
    /\ ~IsNone(transformation_operator) =>
          /\ Val(transformation_operator) =
                 Blocks(Val(character_table), Val(IRR_degeneracies), 0)
          /\ Len(Val(transformation_operator)) = nnodes
    /\ (ret.op = "get_transformation_operator" /\ ret.err = "ok") =>
          /\ ret.val = Blocks(Val(character_table), Val(IRR_degeneracies), 0)
          /\ Len(ret.val) = nnodes

\* C10 witness: get_transformation_operator has returned, for the triangle, two
\* rows of the 2-dimensional IRR 1 and one row of IRR 2, and no row of IRR 0.
C10_Witness ==
    /\ ret.op = "get_transformation_operator"
    /\ ret.err = "ok"
    /\ adjmat = Some(AdjK3)
    /\ ret.val = <<1, 1, 2>>
    /\ transformation_operator = Some(ret.val)

\* the number of IRRs of the network a: the rows of its group's character table
IRRCount(a) == Len(SageCharacterTable(SageAutomorphismGroup(Val(a)).group))

\* C11: get_projection_operator(j) with j outside 0 .. numIRRs - 1 leaves every
\* cached field as it was before the call.
C11_OutOfRangeLeavesCache ==
    [][(/\ ret'.op = "get_projection_operator"
        /\ IsGraphMatrix(adjmat)
        /\ ret'.j \notin 0..(IRRCount(adjmat) - 1))
       => cache' = cache]_vars

\* the sum of the numerators of the projection operators ops, from the k-th on
RECURSIVE SumOfNumerators(_, _, _)
SumOfNumerators(ops, n, k) ==
    IF k > Len(ops) THEN Zeros(n)
    ELSE MatAdd(Val(ops[k]).num, SumOfNumerators(ops, n, k + 1))

\* every IRR's projection operator is cached
AllProjectionsCached ==
    /\ ~IsNone(projection_operators)
    /\ \A k \in 1..Len(Val(projection_operators)) : ~IsNone(Val(projection_operators)[k])

\* C12: the projection operators of all IRRs sum to the identity matrix: once
\* all of them are built, there is one per row of the character table, all over
\* the denominator |G|, and their numerators sum to |G| times the identity.
C12_ProjectionsSumToIdentity ==
    AllProjectionsCached =>
        /\ Len(Val(projection_operators)) = Len(Val(character_table))
        /\ \A k \in 1..Len(Val(projection_operators)) :
               Val(Val(projection_operators)[k]).den = GroupOrder(Val(group))
        /\ SumOfNumerators(Val(projection_operators), nnodes, 1)
               = MatScale(PermMatrix(Identity(nnodes)), GroupOrder(Val(group)))

\* C12 witness: on the triangle the three projection operators have been built,
\* the last one by a call of get_projection_operator that returned it.
C12_Witness ==
    /\ adjmat = Some(AdjK3)
    /\ AllProjectionsCached
    /\ ret.op = "get_projection_operator"
    /\ ret.err = "ok"
    /\ ret.val \in {Val(Val(projection_operators)[k]) : k \in 1..3}

\* |G| times the sum, over the classes j, of |class_j| / |G| * character[i][j] *
\* trace(first matrix of class j), for the IRR of row i (1-based)
WeightedTraces(table, classes, i) ==
    SumTo([j \in 1..Len(classes) |-> Len(classes[j]) * table[i][j] * Trace(classes[j][1])],
          Len(classes))

\* d is x / g rounded to a nearest integer
Nearest(d, x, g) == 2 * (x - d * g) <= g /\ 2 * (d * g - x) <= g

\* C13: the degeneracies, cached or returned by get_IRR_degeneracies, are one
\* per row of the character table, in row order, entry i being the rounded
\* weighted sum of traces of row i; they are [1, 1] for K2 and [1] for one node.
C13_DegeneracyFormula ==
    /\ ~IsNone(IRR_degeneracies) =>
          /\ Len(Val(IRR_degeneracies)) = Len(Val(character_table))
          /\ \A i \in 1..Len(Val(IRR_degeneracies)) :
                 Nearest(Val(IRR_degeneracies)[i],
                         WeightedTraces(Val(character_table),
                                        Val(conjugacy_classes_matrices), i),
                         GroupOrder(Val(group)))
          /\ adjmat = Some(AdjK2) => Val(IRR_degeneracies) = <<1, 1>>
          /\ adjmat = Some(AdjN1) => Val(IRR_degeneracies) = <<1>>
    /\ (ret.op = "get_IRR_degeneracies" /\ ret.err = "ok") =>
          ret.val = Val(IRR_degeneracies)

\* C13 witness: get_IRR_degeneracies has returned [2, 1] for the path on three
\* nodes, whose two rows have different degeneracies.
C13_Witness ==
    /\ ret.op = "get_IRR_degeneracies"
    /\ ret.err = "ok"
    /\ adjmat = Some(AdjP3)
    /\ ret.val = <<2, 1>>

\* the index of the conjugacy class of g in G, the classes given by representatives
ClassOf(G, reps, g) ==
    CHOOSE j \in 1..Len(reps) :
        \E h \in 1..Len(G) : Compose(Compose(G[h], reps[j]), Inverse(G[h])) = g

\* the sum over the elements g of G, from the k-th on, of row[class of g] * D(g)
RECURSIVE CharacterSum(_, _, _, _)
CharacterSum(G, reps, row, k) ==
    IF k > Len(G) THEN Zeros(Len(G[1]))
    ELSE MatAdd(MatScale(PermMatrix(G[k]), row[ClassOf(G, reps, G[k])]),
                CharacterSum(G, reps, row, k + 1))

\* dimension / |G| * sum over all g of character(g) * D(g), for the row i (1-based)
ProjectionFormula(i) ==
    [num |-> MatScale(CharacterSum(Val(group), Val(conjugacy_classes),
                                   Val(character_table)[i], 1),
                      Val(character_table)[i][1]),
     den |-> GroupOrder(Val(group))]

\* C14: a projection operator, cached for row i or returned by
\* get_projection_operator(i), is dimension_i / |G| times the sum over every
\* group element g of character_i(g) * D(g); for K2 these are
\* [[1/2, 1/2], [1/2, 1/2]] and [[1/2, -1/2], [-1/2, 1/2]].
C14_ProjectionFormula ==
    /\ ~IsNone(projection_operators) =>
          \A k \in 1..Len(Val(projection_operators)) :
              ~IsNone(Val(projection_operators)[k]) =>
                  Val(Val(projection_operators)[k]) = ProjectionFormula(k)
    /\ (ret.op = "get_projection_operator" /\ ret.err = "ok" /\ ret.j >= 0) =>
          /\ ret.val = ProjectionFormula(ret.j + 1)
          /\ (adjmat = Some(AdjK2) /\ ret.j = 0) =>
                 ret.val = [num |-> << <<1, 1>>, <<1, 1>> >>, den |-> 2]
          /\ (adjmat = Some(AdjK2) /\ ret.j = 1) =>
                 ret.val = [num |-> << <<1, -1>>, <<-1, 1>> >>, den |-> 2]

\* C14 witness: on the triangle get_projection_operator(1) has returned the
\* operator of the 2-dimensional IRR, to which the classes of three and of two
\* elements contribute: 2/3 on the diagonal and -1/3 off it.
C14_Witness ==
    /\ ret.op = "get_projection_operator"
    /\ ret.err = "ok"
    /\ ret.j = 1
    /\ adjmat = Some(AdjK3)
    /\ ret.val = [num |-> << <<4, -2, -2>>, <<-2, 4, -2>>, <<-2, -2, 4>> >>, den |-> 6]

\* the positions in cache of the fields a getter may set: the field of the
\* quantity it returns and the fields of the quantities that one is computed
\* from (the group and the orbits are one pair, stored by one call at lines
\* 102-103 and 137-139)
Footprint(op) ==
    CASE op = "get_adjacency_matrix" -> {}
      [] op = "get_automorphism_group" -> {1, 2}
      [] op = "get_orbits" -> {1, 2}
      [] op = "get_automorphism_group_matrices" -> {1, 2, 3}
      [] op = "get_character_table" -> {1, 2, 6}
      [] op = "get_numIRRs" -> {1, 2, 6}
      [] op = "get_conjugacy_classes" -> {1, 2, 4}
      [] op = "get_conjugacy_classes_matrices" -> {1, 2, 4, 5}
      [] op = "get_IRR_degeneracies" -> {1, 2, 4, 5, 6, 7}
      [] op = "get_projection_operator" -> {1, 2, 4, 5, 6, 7, 8}
      [] op = "get_transformation_operator" -> {1, 2, 4, 5, 6, 7, 8, 9}

\* entry k of the list of projection operators, absent while the list is
EntryOf(ops, k) == IF IsNone(ops) THEN None ELSE Val(ops)[k]

\* C15: a get_* call, whether it returns or raises, leaves the adjacency
\* matrix, the node count and every cache field outside the footprint of the
\* getter as they were, and get_projection_operator(j) leaves the projection
\* operator of every index other than j as it was; on a fresh cache
\* get_character_table therefore leaves the conjugacy classes, degeneracies,
\* projection operators and transformation operator absent.
C15_GetterFootprint ==
    [][ret'.op \in Getters =>
          /\ adjmat' = adjmat
          /\ nnodes' = nnodes
          /\ \A i \in 1..Len(cache) : i \notin Footprint(ret'.op) => cache'[i] = cache[i]
          /\ (ret'.op = "get_projection_operator" /\ ~IsNone(projection_operators')) =>
                 \A k \in 1..Len(Val(projection_operators')) :
                     k # PyIndex(ret'.j, Len(Val(projection_operators'))) =>
                         Val(projection_operators')[k] = EntryOf(projection_operators, k)
          /\ (ret'.op = "get_character_table" /\ AllAbsent) =>
                 /\ IsNone(conjugacy_classes') /\ IsNone(IRR_degeneracies')
                 /\ IsNone(projection_operators') /\ IsNone(transformation_operator')]_vars

\* C15 witness: on the triangle get_projection_operator(1), called on a fresh
\* cache, has returned; the operator of index 1 is cached, those of indices 0
\* and 2, the permutation matrices and the transformation operator are absent.
C15_Witness ==
    /\ ret.op = "get_projection_operator"
    /\ ret.err = "ok"
    /\ ret.j = 1
    /\ ret.had = "none"
    /\ adjmat = Some(AdjK3)
    /\ ~IsNone(projection_operators)
    /\ ~IsNone(Val(projection_operators)[2])
    /\ IsNone(Val(projection_operators)[1])
    /\ IsNone(Val(projection_operators)[3])
    /\ IsNone(permutation_matrices)
    /\ IsNone(transformation_operator)

\* C16: after get_transformation_operator has returned from a call made on a
\* fresh cache, the projection operator of index j is cached exactly when
\* degeneracy_j is nonzero, and no row of the result belongs to an IRR of
\* degeneracy 0.
C16_ZeroDegeneracySkipped ==
    (ret.op = "get_transformation_operator" /\ ret.err = "ok" /\ ret.had = "none") =>
        /\ ~IsNone(IRR_degeneracies)
        /\ ~IsNone(projection_operators)
        /\ Len(Val(projection_operators)) = Len(Val(IRR_degeneracies))
        /\ \A k \in 1..Len(Val(IRR_degeneracies)) :
               ~IsNone(Val(projection_operators)[k]) <=> Val(IRR_degeneracies)[k] # 0
        /\ \A r \in 1..Len(ret.val) : Val(IRR_degeneracies)[ret.val[r] + 1] # 0

\* C16 witness: on the triangle, whose sign representation has degeneracy 0,
\* get_transformation_operator has returned from a call on a fresh cache; the
\* projection operator of index 0 is absent, those of indices 1 and 2 are cached.
C16_Witness ==
    /\ ret.op = "get_transformation_operator"
    /\ ret.err = "ok"
    /\ ret.had = "none"
    /\ adjmat = Some(AdjK3)
    /\ Val(IRR_degeneracies) = <<0, 1, 1>>
    /\ IsNone(Val(projection_operators)[1])
    /\ ~IsNone(Val(projection_operators)[2])
    /\ ~IsNone(Val(projection_operators)[3])
    /\ ret.val = <<1, 1, 2>>

\* some projection operator is cached
SomeProjectionCached ==
    /\ ~IsNone(projection_operators)
    /\ \E k \in 1..Len(Val(projection_operators)) : ~IsNone(Val(projection_operators)[k])

\* C17: the cache is closed under its dependencies: the orbits are cached
\* exactly when the group is; permutation matrices or conjugacy classes cached
\* implies the group cached; conjugacy class matrices cached implies conjugacy
\* classes cached; degeneracies cached implies character table, group and
\* conjugacy class matrices cached; a projection operator or the
\* transformation operator cached implies degeneracies cached.
C17_DependencyClosed ==
    /\ ~IsNone(orbits) <=> ~IsNone(group)
    /\ ~IsNone(permutation_matrices) => ~IsNone(group)
    /\ ~IsNone(conjugacy_classes) => ~IsNone(group)
    /\ ~IsNone(conjugacy_classes_matrices) => ~IsNone(conjugacy_classes)
    /\ ~IsNone(IRR_degeneracies) =>
           /\ ~IsNone(character_table)
           /\ ~IsNone(group)
           /\ ~IsNone(conjugacy_classes_matrices)
    /\ ~IsNone(projection_operators) => ~IsNone(IRR_degeneracies)
    /\ SomeProjectionCached => ~IsNone(IRR_degeneracies)
    /\ ~IsNone(transformation_operator) => ~IsNone(IRR_degeneracies)

\* C17 witness: on the path of three nodes get_orbits and then
\* get_projection_operator(0) have returned: a projection operator is cached
\* together with everything it depends on, while the permutation matrices and
\* the transformation operator are absent.
C17_Witness ==
    /\ adjmat = Some(AdjP3)
    /\ ret.op = "get_projection_operator"
    /\ ret.err = "ok"
    /\ ret.j = 0
    /\ ret.had = "some"
    /\ SomeProjectionCached
    /\ ~IsNone(IRR_degeneracies)
    /\ ~IsNone(conjugacy_classes_matrices)
    /\ ~IsNone(orbits)
    /\ IsNone(permutation_matrices)
    /\ IsNone(transformation_operator)

\* C18: a get_* call, whether it returns or raises, resets no cache field that
\* was set and replaces none by a different value: every field set before the
\* call holds the same value after it, and every projection operator cached
\* before the call is the same after it.
C18_CacheOnlyGrows ==
    [][ret'.op \in Getters =>
          /\ \A i \in (1..Len(cache)) \ {8} : ~IsNone(cache[i]) => cache'[i] = cache[i]
          /\ KeptEntries(projection_operators, projection_operators')]_vars

\* C18 witness: on the path of three nodes, with every cache field set,
\* get_projection_operator has raised IndexError and every field is still set.
C18_Witness ==
    /\ adjmat = Some(AdjP3)
    /\ ret.op = "get_projection_operator"
    /\ ret.err = "IndexError"
    /\ ret.had = "all"
    /\ Cached = "all"
    /\ SomeProjectionCached

====
